---- MODULE Spec2Model ----
(***************************************************************************)
(* A model of GenericList/list.h: the class template List<T, Allocator>,   *)
(* a growable array that constructs and destroys its elements by hand in   *)
(* raw storage obtained from an allocator.                                 *)
(*                                                                         *)
(* The heap is a finite set of blocks.  A pointer T* that List keeps is    *)
(* the id of a block (Null for nullptr); data + i is slot i of that block. *)
(* A slot holds Raw (no object lives there), Moved (an object that has     *)
(* been moved from) or a value of T.  Two List objects, "a" and "b", plus  *)
(* the temporary "tmp" of the move assignment, live over that heap.        *)
(***************************************************************************)
EXTENDS Integers, Sequences, FiniteSets, TLC

\* Bounds of the model.
MaxCount == 3          \* Add is not called on a list that holds MaxCount elements
MaxVal   == 2          \* the element values are 1..MaxVal
NBlocks  == 3          \* block ids (addresses) the allocator hands out
MaxPair  == 2          \* the same, in the specification of two lists
SizeBits == 16         \* the width of size_t, narrowed
MaxAdds  == 9          \* the longest run of Adds of the specification SpecAdds

Values  == 1..MaxVal
PairValues == {1, 2}   \* the element values in the specification of two lists
Names   == {"a", "b"}
Tmp     == "tmp"
Objects == Names \cup {Tmp}
AllocIds == {0, 1}      \* 0: a default-constructed Allocator; 1: one given to List(alloc)

Null  == 0             \* nullptr
Raw   == -1            \* a slot in which no object lives
Moved == 0             \* the state std::move leaves an object in

NoRet == -1            \* a call that returns nothing, or a null element pointer

Max(x, y) == IF x >= y THEN x ELSE y

\* the value of x as a size_t
SizeT(x) == x % (2 ^ SizeBits)

VARIABLES
    lists,    \* lists[o]: the members of List object o, and whether o exists
    heap,     \* heap[p]: the block at address p
    last,     \* the call made last, its arguments, and what it did
    added,    \* the values of the Adds that returned, under SpecAdds
    relocated \* the elements those Adds have moved to a new block, in all

vars == <<lists, heap, last, added, relocated>>

\* The members of a List (list.h:223-227), plus the lifetime of the object.
EmptyList(al) ==
    [alive |-> TRUE, data |-> Null, capacity |-> 0, count |-> 0, alloc |-> al]

NoList ==
    [alive |-> FALSE, data |-> Null, capacity |-> 0, count |-> 0, alloc |-> 0]

FreeBlock == [allocd |-> FALSE, size |-> 0, slots |-> <<>>]

\* The nondeterminism of one call: whether allocate throws, and whether
\* allocate(0) returns a null pointer (the standard leaves the value
\* unspecified).
Envs == [fail : BOOLEAN, zeroNull : BOOLEAN]

\* The machine state a call runs on, with what the call has done so far.
Start ==
    [lists |-> lists, heap |-> heap, faults |-> {}, cons |-> 0, dtors |-> 0,
     frees |-> 0, nullfrees |-> 0, reads |-> <<>>, ret |-> NoRet, thrown |-> "none"]

Fault(w, f) == [w EXCEPT !.faults = @ \cup {f}]

(***************************************************************************)
(* The allocator and the element primitives                                *)
(***************************************************************************)
FreeIds(h) == {p \in 1..NBlocks : ~h[p].allocd}

InBlock(h, p, i) == p \in 1..NBlocks /\ h[p].allocd /\ i >= 0 /\ i < h[p].size

Live(h, p, i) == InBlock(h, p, i) /\ h[p].slots[i + 1] # Raw

\* *(p + i), read
Read(h, p, i) == IF InBlock(h, p, i) THEN h[p].slots[i + 1] ELSE Raw

\* Allocator::allocate(n): a block of n raw slots at the lowest free address.
allocate(w, n, env) ==
    IF env.fail \/ FreeIds(w.heap) = {}
    THEN [w |-> [w EXCEPT !.thrown = "bad_alloc"], ptr |-> Null]
    ELSE IF n = 0 /\ env.zeroNull
    THEN [w |-> w, ptr |-> Null]
    ELSE LET p == CHOOSE q \in FreeIds(w.heap) : \A r \in FreeIds(w.heap) : q <= r
         IN  [w |-> [w EXCEPT !.heap[p] = [allocd |-> TRUE, size |-> n,
                                            slots |-> [i \in 1..n |-> Raw]]],
              ptr |-> p]

\* Allocator::deallocate(p, n)
deallocate(w, p, n) ==
    LET w1 == IF p = Null THEN [w EXCEPT !.nullfrees = @ + 1]
              ELSE [w EXCEPT !.frees = @ + 1]
    IN  IF p = Null THEN w1
        ELSE IF ~(p \in 1..NBlocks /\ w1.heap[p].allocd) THEN Fault(w1, "double_free")
        ELSE IF w1.heap[p].size # n
        THEN Fault([w1 EXCEPT !.heap[p] = FreeBlock], "deallocate_size")
        ELSE [w1 EXCEPT !.heap[p] = FreeBlock]

\* new (p + i) T(v)
construct(w, p, i, v) ==
    IF ~InBlock(w.heap, p, i) THEN Fault(w, "construct_outside_block")
    ELSE LET w1 == IF w.heap[p].slots[i + 1] # Raw THEN Fault(w, "construct_over_live")
                   ELSE w
         IN  [w1 EXCEPT !.heap[p].slots[i + 1] = v, !.cons = @ + 1]

\* new (p + i) T(*(q + j))
copy_construct(w, p, i, q, j) ==
    IF ~Live(w.heap, q, j) THEN Fault(w, "read_not_live")
    ELSE construct(w, p, i, Read(w.heap, q, j))

\* (p + i)->~T()
destroy(w, p, i) ==
    IF ~Live(w.heap, p, i) THEN Fault(w, "destroy_not_live")
    ELSE [w EXCEPT !.heap[p].slots[i + 1] = Raw, !.dtors = @ + 1]

\* *(p + i) = std::move(*(q + j))
move_assign(w, p, i, q, j) ==
    IF ~Live(w.heap, p, i) \/ ~Live(w.heap, q, j) THEN Fault(w, "assign_not_live")
    ELSE [w EXCEPT !.heap[p].slots[i + 1] = w.heap[q].slots[j + 1],
                   !.heap[q].slots[j + 1] = Moved]

(***************************************************************************)
(* The member functions of List, each a function of the machine state      *)
(***************************************************************************)
\* the loop of Clear with no body
ClearLoopNone(w, o, i) == w

RECURSIVE ClearLoop(_, _, _)
\* the loop of Clear: data[i].~T() for i in [i, count)
ClearLoop(w, o, i) ==
    IF i < w.lists[o].count
    THEN ClearLoop(destroy(w, w.lists[o].data, i), o, i + 1)
    ELSE w

\* void Clear()
Clear(w, o) == [ClearLoop(w, o, 0) EXCEPT !.lists[o].count = 0]

RECURSIVE ResizeLoopShort(_, _, _, _, _)
\* ResizeLoop stopping one element early (src != end - 1)
ResizeLoopShort(w, dest, src, k, n) ==
    IF k + 1 < n
    THEN ResizeLoopShort(destroy(copy_construct(w, dest, k, src, k), src, k),
                         dest, src, k + 1, n)
    ELSE w

RECURSIVE ResizeLoop(_, _, _, _, _)
\* the loop of Resize: copy-construct at dest, destroy at src, until src = end
ResizeLoop(w, dest, src, k, n) ==
    IF k # n
    THEN ResizeLoop(destroy(copy_construct(w, dest, k, src, k), src, k),
                    dest, src, k + 1, n)
    ELSE w

\* void Resize(size_t new_capacity)
Resize(w, o, new_capacity, env) ==
    LET L  == w.lists[o]
        a  == allocate(w, new_capacity, env)
    IN  IF a.w.thrown # "none" THEN a.w
        ELSE LET w1 == ResizeLoop(a.w, a.ptr, L.data, 0, L.count)
                 w2 == deallocate(w1, L.data, L.capacity)
             IN  [w2 EXCEPT !.lists[o].data = a.ptr,
                            !.lists[o].capacity = new_capacity]

\* Capacity that sets the capacity to any new_capacity the elements fit in
CapacityExact(w, o, new_capacity, env) ==
    IF new_capacity = w.lists[o].capacity \/ new_capacity < w.lists[o].count THEN w
    ELSE Resize(w, o, new_capacity, env)

\* void Capacity(size_t new_capacity)
Capacity(w, o, new_capacity, env) ==
    IF new_capacity <= w.lists[o].capacity THEN w
    ELSE Resize(w, o, new_capacity, env)

\* ShrinkToFit that keeps the block
ShrinkToFitKeep(w, o, env) == w

\* void ShrinkToFit()
ShrinkToFit(w, o, env) ==
    IF w.lists[o].capacity = w.lists[o].count THEN w
    ELSE Resize(w, o, w.lists[o].count, env)

\* growth by one slot
GrowByOne(capacity) == capacity + 1

\* the capacity Add asks for when the block is full
GrowTo(capacity) == Max(2 * capacity, 1)

\* void Add(Args&&... args), the argument being a value
Add(w, o, v, env) ==
    LET w1 == IF w.lists[o].capacity = w.lists[o].count
              THEN Capacity(w, o, GrowTo(w.lists[o].capacity), env)
              ELSE w
    IN  IF w1.thrown # "none" THEN w1
        ELSE [construct(w1, w1.lists[o].data, w1.lists[o].count, v)
                  EXCEPT !.lists[o].count = @ + 1]

\* void Add(Args&&... args), the argument being list[index], a reference to
\* an element of the List itself, bound before the call.  When Add grows the
\* block, Resize has destroyed that element and released its block by the
\* time the new element is constructed from it: the behaviour is undefined,
\* and the value constructed is g, any value.
AddElementOf(w, o, index, env, g) ==
    LET p  == w.lists[o].data
        w1 == IF w.lists[o].capacity = w.lists[o].count
              THEN Capacity(w, o, GrowTo(w.lists[o].capacity), env)
              ELSE w
    IN  IF w1.thrown # "none" THEN w1
        ELSE IF Live(w1.heap, p, index)
        THEN [copy_construct(w1, w1.lists[o].data, w1.lists[o].count, p, index)
                  EXCEPT !.lists[o].count = @ + 1]
        ELSE [construct(Fault(w1, "read_not_live"), w1.lists[o].data,
                        w1.lists[o].count, g)
                  EXCEPT !.lists[o].count = @ + 1]

RECURSIVE PrintLoop(_, _, _, _, _)
\* std::cout << data[i] for i in [i, n).  A read of a slot that holds no
\* element is undefined: the call either stops there (ub = "crash") or goes on
\* with whatever the raw slot holds (ub = "garbage") until it leaves the block.
PrintLoop(w, p, i, n, ub) ==
    IF i >= n THEN w
    ELSE LET w1 == [w EXCEPT !.reads = Append(@, i)]
         IN  IF Live(w.heap, p, i) THEN PrintLoop(w1, p, i + 1, n, ub)
             ELSE IF InBlock(w.heap, p, i) /\ ub = "garbage"
             THEN PrintLoop(Fault(w1, "read_not_live"), p, i + 1, n, ub)
             ELSE [Fault(w1, IF InBlock(w.heap, p, i) THEN "read_not_live"
                             ELSE "read_outside_block")
                       EXCEPT !.thrown = "crash"]

\* void Print() const: data[0], ..., data[count - 2], then data[count - 1],
\* count - 1 being computed in size_t
PrintOut(w, o, ub) ==
    LET p    == w.lists[o].data
        last_ == SizeT(w.lists[o].count - 1)
        w1   == PrintLoop(w, p, 0, last_, ub)
    IN  IF w1.thrown # "none" THEN w1
        ELSE PrintLoop(w1, p, last_, last_ + 1, ub)

RECURSIVE FindLoop(_, _, _, _, _)
\* the loop of Find and FindIf: the first slot in [i, n) whose element
\* satisfies the predicate, or NoRet for nullptr.  A predicate is the set of
\* the values it accepts.
FindLoop(h, p, i, n, pred) ==
    IF i < n
    THEN IF Read(h, p, i) \in pred THEN i ELSE FindLoop(h, p, i + 1, n, pred)
    ELSE NoRet

\* T* FindIf(Predicate&& pred)
FindIf(w, o, pred) ==
    [w EXCEPT !.ret = FindLoop(w.heap, w.lists[o].data, 0, w.lists[o].count, pred)]

\* T* Find(const T& val)
Find(w, o, val) ==
    [w EXCEPT !.ret = FindLoop(w.heap, w.lists[o].data, 0, w.lists[o].count, {val})]

\* std::move over an empty range: nothing is shifted
ShiftLoopNone(w, p, k, n) == w

RECURSIVE ShiftLoop(_, _, _, _)
\* std::move(first, last, d_first) with d_first = first - 1
ShiftLoop(w, p, k, n) ==
    IF k < n THEN ShiftLoop(move_assign(w, p, k - 1, p, k), p, k + 1, n) ELSE w

\* the range check of RemoveAt and Get, off by one (index > count)
OutOfRangeLax(index, count) == index > count

\* index >= count, the check of RemoveAt and Get (index < 0 is never true of
\* a size_t)
OutOfRange(index, count) == index >= count

\* void RemoveAt(size_t index)
RemoveAt(w, o, index) ==
    IF OutOfRange(index, w.lists[o].count) THEN [w EXCEPT !.thrown = "out_of_range"]
    ELSE LET L  == w.lists[o]
             w1 == ShiftLoop(w, L.data, index + 1, L.count)
         IN  [destroy(w1, L.data, L.count - 1) EXCEPT !.lists[o].count = @ - 1]

RECURSIVE CompactLoopStuck(_, _, _, _, _, _)
\* CompactLoop without ++placer
CompactLoopStuck(w, p, placer, picker, n, pred) ==
    IF picker < n
    THEN IF Read(w.heap, p, picker) \notin pred
         THEN CompactLoopStuck(move_assign(w, p, placer, p, picker), p, placer,
                               picker + 1, n, pred)
         ELSE CompactLoopStuck(w, p, placer, picker + 1, n, pred)
    ELSE [w EXCEPT !.ret = placer]

RECURSIVE CompactLoop(_, _, _, _, _, _)
\* the picker loop of RemoveIf; what it returns carries the final placer in ret
CompactLoop(w, p, placer, picker, n, pred) ==
    IF picker < n
    THEN IF Read(w.heap, p, picker) \notin pred
         THEN CompactLoop(move_assign(w, p, placer, p, picker), p, placer + 1,
                          picker + 1, n, pred)
         ELSE CompactLoop(w, p, placer, picker + 1, n, pred)
    ELSE [w EXCEPT !.ret = placer]

RECURSIVE DestroyLoop(_, _, _, _)
\* k->~T() for k in [k, n)
DestroyLoop(w, p, k, n) ==
    IF k < n THEN DestroyLoop(destroy(w, p, k), p, k + 1, n) ELSE w

\* size_t RemoveIf(Predicate&& pred)
RemoveIf(w, o, pred) ==
    LET L     == w.lists[o]
        first == FindIf(w, o, pred).ret
    IN  IF first = NoRet THEN [w EXCEPT !.ret = 0]
        ELSE LET w1      == CompactLoop(w, L.data, first, first + 1, L.count, pred)
                 placer  == w1.ret
                 w2      == DestroyLoop(w1, L.data, placer, L.count)
                 removed == L.count - placer
             IN  [w2 EXCEPT !.lists[o].count = @ - removed, !.ret = removed]

\* size_t Remove(const T& val)
Remove(w, o, val) == RemoveIf(w, o, {val})

\* T& Get(size_t index), read
Get(w, o, index) ==
    IF OutOfRange(index, w.lists[o].count) THEN [w EXCEPT !.thrown = "out_of_range"]
    ELSE [w EXCEPT !.ret = Read(w.heap, w.lists[o].data, index)]

\* T& operator[](size_t index), written through: list[index] = v
Assign(w, o, index, v) ==
    IF ~Live(w.heap, w.lists[o].data, index) THEN Fault(w, "assign_not_live")
    ELSE [w EXCEPT !.heap[w.lists[o].data].slots[index + 1] = v]

\* the copy loop with no body
CopyLoopNone(w, dst, src, k, n) == w

RECURSIVE CopyLoop(_, _, _, _, _)
\* copy-construct the elements [k, n) of src at the same slots of dst
CopyLoop(w, dst, src, k, n) ==
    IF k # n THEN CopyLoop(copy_construct(w, dst, k, src, k), dst, src, k + 1, n)
    ELSE w

\* a copy that shares the block of list
CreateShallowCopy(w, list, env) == [w |-> w, ptr |-> w.lists[list].data]

\* static T* CreateDeepCopy(const List& list, Allocator& alloc); what it
\* returns carries the new block in ptr
CreateDeepCopy(w, list, env) ==
    LET L == w.lists[list]
        a == IF L.capacity > 0 THEN allocate(w, L.capacity, env)
             ELSE [w |-> w, ptr |-> Null]
    IN  IF a.w.thrown # "none" THEN a
        ELSE [w |-> CopyLoop(a.w, a.ptr, L.data, 0, L.count), ptr |-> a.ptr]

\* List(const List& other).  The members are initialised in the order of
\* their declaration (data, capacity, count, dataAllocator), so CreateDeepCopy
\* runs with a dataAllocator that is not constructed yet; the block it gets,
\* or the exception, is that of some allocator.
CopyConstructor(w, o, other, env) ==
    LET d == CreateDeepCopy(w, other, env)
    IN  IF d.w.thrown # "none" THEN d.w
        ELSE [d.w EXCEPT !.lists[o] =
                 [alive |-> TRUE, data |-> d.ptr,
                  capacity |-> w.lists[other].capacity,
                  count |-> w.lists[other].count,
                  alloc |-> w.lists[other].alloc]]

\* operator=(const List&) without the test this != &other
CopyAssignmentUnguarded(w, o, other, env) ==
    LET w1 == Clear(w, o)
        w2 == Capacity(w1, o, w1.lists[other].capacity, env)
    IN  IF w2.thrown # "none" THEN w2
        ELSE [CopyLoop(w2, w2.lists[o].data, w2.lists[other].data, 0,
                       w2.lists[other].count)
                  EXCEPT !.lists[o].count = w2.lists[other].count]

\* List& operator=(const List& other)
CopyAssignment(w, o, other, env) ==
    IF o = other THEN w
    ELSE LET w1 == Clear(w, o)
             w2 == Capacity(w1, o, w1.lists[other].capacity, env)
         IN  IF w2.thrown # "none" THEN w2
             ELSE [CopyLoop(w2, w2.lists[o].data, w2.lists[other].data, 0,
                            w2.lists[other].count)
                       EXCEPT !.lists[o].count = w2.lists[other].count]

\* List(List&&) that leaves other as it was
MoveConstructorNoReset(w, o, other) ==
    [w EXCEPT !.lists[o] = [alive |-> TRUE, data |-> w.lists[other].data,
                            capacity |-> w.lists[other].capacity,
                            count |-> w.lists[other].count,
                            alloc |-> w.lists[other].alloc]]

\* List(List&& other)
MoveConstructor(w, o, other) ==
    [w EXCEPT !.lists[o] = [alive |-> TRUE, data |-> w.lists[other].data,
                            capacity |-> w.lists[other].capacity,
                            count |-> w.lists[other].count,
                            alloc |-> w.lists[other].alloc],
              !.lists[other].data = Null,
              !.lists[other].capacity = 0,
              !.lists[other].count = 0]

\* friend void swap(List& first, List& second)
swap(w, first, second) ==
    [w EXCEPT !.lists[first].alloc = w.lists[second].alloc,
              !.lists[second].alloc = w.lists[first].alloc,
              !.lists[first].capacity = w.lists[second].capacity,
              !.lists[second].capacity = w.lists[first].capacity,
              !.lists[first].count = w.lists[second].count,
              !.lists[second].count = w.lists[first].count,
              !.lists[first].data = w.lists[second].data,
              !.lists[second].data = w.lists[first].data]

\* ~List() without the deallocate
DestructorNoRelease(w, o) == [Clear(w, o) EXCEPT !.lists[o] = NoList]

\* ~List()
Destructor(w, o) ==
    LET w1 == Clear(w, o)
        w2 == deallocate(w1, w1.lists[o].data, w1.lists[o].capacity)
    IN  [w2 EXCEPT !.lists[o] = NoList]

\* List& operator=(List&& other)
MoveAssignment(w, o, other) ==
    LET w1 == MoveConstructor(w, Tmp, other)
        w2 == swap(w1, o, Tmp)
    IN  Destructor(w2, Tmp)

(***************************************************************************)
(* What a caller observes of a List                                        *)
(***************************************************************************)
\* the elements [0], ..., [Count() - 1]
Elems(ls, h, o) == [i \in 1..ls[o].count |-> Read(h, ls[o].data, i - 1)]

\* elements, Count() and Capacity()
Observed(ls, h, o) ==
    [elems |-> Elems(ls, h, o), count |-> ls[o].count, capacity |-> ls[o].capacity]

(***************************************************************************)
(* The calls.  Each runs a member function on the current state and        *)
(* records in last what was called, with what, and what it returned or     *)
(* threw.                                                                  *)
(***************************************************************************)
NoArg == -1

\* List compares no addresses of different blocks, so which address allocate
\* returns is immaterial: between calls the blocks are kept renumbered in the
\* order a's block, b's block, the other live blocks, the free ones.
Key(ls, h, p) ==
    (IF p = ls["a"].data THEN 0
     ELSE IF p = ls["b"].data THEN 1
     ELSE IF h[p].allocd THEN 2 ELSE 3) * (NBlocks + 1) + p

\* the new address of each block, and of the null pointer
NewAddr(ls, h) ==
    LET key == [p \in 1..NBlocks |-> Key(ls, h, p)]
    IN  [p \in 0..NBlocks |->
            IF p = Null THEN Null
            ELSE Cardinality({q \in 1..NBlocks : key[q] < key[p]}) + 1]

\* the state a call leaves, renumbered
Renumbered(ls, h) ==
    LET pa == ls["a"].data
        pb == ls["b"].data
        na == IF pa = Null THEN 0 ELSE 1
        nb == IF pb = Null THEN 0 ELSE IF pb = pa THEN 1 ELSE na + 1
    IN  IF \A p \in 1..NBlocks : h[p].allocd => p \in {pa, pb}
        THEN \* every live block is a's or b's
             [lists |-> [ls EXCEPT !["a"].data = na, !["b"].data = nb],
              heap  |-> [n \in 1..NBlocks |->
                            IF n = na THEN h[pa] ELSE IF n = nb THEN h[pb]
                            ELSE FreeBlock]]
        ELSE LET new == NewAddr(ls, h)
                 old == [n \in 1..NBlocks |-> CHOOSE p \in 1..NBlocks : new[p] = n]
             IN  [lists |-> [x \in Objects |-> [ls[x] EXCEPT !.data = new[@]]],
                  heap  |-> [n \in 1..NBlocks |-> h[old[n]]]]

Record(w, op, o, src, arg) ==
    \E r \in {Renumbered(w.lists, w.heap)} :
        /\ lists' = r.lists
        /\ heap' = r.heap
        /\ last' = [op |-> op, obj |-> o, src |-> src, arg |-> arg, ret |-> w.ret,
                    err |-> w.thrown, faults |-> w.faults, cons |-> w.cons,
                    dtors |-> w.dtors, frees |-> w.frees,
                    nullfrees |-> w.nullfrees, reads |-> w.reads]

Done(w, op, o, src, arg) ==
    Record(w, op, o, src, arg) /\ UNCHANGED <<added, relocated>>

\* List o;  or  List o(alloc);
OpConstruct(o, al) ==
    /\ ~lists[o].alive
    /\ Done([Start EXCEPT !.lists[o] = EmptyList(al)], "List", o, "none", al)

\* List o(other);
OpCopyConstruct(o, other, env) ==
    /\ ~lists[o].alive /\ lists[other].alive
    /\ Done(CopyConstructor(Start, o, other, env), "CopyConstruct", o, other, NoArg)

\* List o(std::move(other));
OpMoveConstruct(o, other) ==
    /\ ~lists[o].alive /\ lists[other].alive
    /\ Done(MoveConstructor(Start, o, other), "MoveConstruct", o, other, NoArg)

\* o goes out of scope
OpDestroy(o) ==
    /\ lists[o].alive
    /\ Done(Destructor(Start, o), "Destroy", o, "none", NoArg)

\* o = other;
OpCopyAssign(o, other, env) ==
    /\ lists[o].alive /\ lists[other].alive
    /\ Done(CopyAssignment(Start, o, other, env), "CopyAssign", o, other, NoArg)

\* o = std::move(other);
OpMoveAssign(o, other) ==
    /\ lists[o].alive /\ lists[other].alive
    /\ Done(MoveAssignment(Start, o, other), "MoveAssign", o, other, NoArg)

\* swap(o, other);
OpSwap(o, other) ==
    /\ lists[o].alive /\ lists[other].alive
    /\ Done(swap(Start, o, other), "swap", o, other, NoArg)

OpClear(o) ==
    /\ lists[o].alive
    /\ Done(Clear(Start, o), "Clear", o, "none", NoArg)

OpShrinkToFit(o, env) ==
    /\ lists[o].alive
    /\ Done(ShrinkToFit(Start, o, env), "ShrinkToFit", o, "none", NoArg)

OpCapacity(o, n, env) ==
    /\ lists[o].alive
    /\ Done(Capacity(Start, o, n, env), "Capacity", o, "none", n)

OpAdd(o, v, env) ==
    /\ lists[o].alive
    /\ Done(Add(Start, o, v, env), "Add", o, "none", v)

\* o.Add(o[index]); with index < Count(), as operator[] requires
OpAddElementOf(o, index, env, g) ==
    /\ lists[o].alive
    /\ index < lists[o].count
    /\ Done(AddElementOf(Start, o, index, env, g), "AddElementOf", o, "none", index)

OpPrint(o, ub) ==
    /\ lists[o].alive
    /\ Done(PrintOut(Start, o, ub), "Print", o, "none", NoArg)

OpRemoveAt(o, index) ==
    /\ lists[o].alive
    /\ Done(RemoveAt(Start, o, index), "RemoveAt", o, "none", index)

OpRemove(o, v) ==
    /\ lists[o].alive
    /\ Done(Remove(Start, o, v), "Remove", o, "none", v)

\* the predicates are numbered: predicate k accepts the values of PredSet(k)
PredSet(k) == {v \in Values : (k \div (2 ^ (v - 1))) % 2 = 1}

OpRemoveIf(o, k) ==
    /\ lists[o].alive
    /\ Done(RemoveIf(Start, o, PredSet(k)), "RemoveIf", o, "none", k)

OpGet(o, index) ==
    /\ lists[o].alive
    /\ Done(Get(Start, o, index), "Get", o, "none", index)

\* o[index] = v; with index < Count(), as operator[] requires
OpAssign(o, index, v) ==
    /\ lists[o].alive
    /\ index < lists[o].count
    /\ Done(Assign(Start, o, index, v), "Assign", o, "none", index)

OpFind(o, v) ==
    /\ lists[o].alive
    /\ Done(Find(Start, o, v), "Find", o, "none", v)

OpFindIf(o, k) ==
    /\ lists[o].alive
    /\ Done(FindIf(Start, o, PredSet(k)), "FindIf", o, "none", k)

NoCall ==
    [op |-> "none", obj |-> "none", src |-> "none", arg |-> NoArg, ret |-> NoRet,
     err |-> "none", faults |-> {}, cons |-> 0, dtors |-> 0, frees |-> 0,
     nullfrees |-> 0, reads |-> <<>>]

\* allocate throws or not; allocate(0), if called, returns a block
Allocs == {e \in Envs : ~e.zeroNull}

(***************************************************************************)
(* Spec: two Lists, a and b, and every call that constructs, changes or    *)
(* destroys them.  The calls that involve one List only and change no      *)
(* element (self-assignment, Get, Find, FindIf, Print) and Add of an own   *)
(* element are under SpecOne.                                              *)
(***************************************************************************)
Init ==
    /\ lists = [o \in Objects |-> NoList]
    /\ heap = [p \in 1..NBlocks |-> FreeBlock]
    /\ last = NoCall
    /\ added = <<>>
    /\ relocated = 0

Next ==
    \/ \E o \in Names : OpConstruct(o, 0)
    \/ \E o \in Names, other \in Names, env \in Allocs : OpCopyConstruct(o, other, env)
    \/ \E o \in Names, other \in Names : OpMoveConstruct(o, other)
    \/ \E o \in Names : OpDestroy(o)
    \/ \E o \in Names : \E other \in Names \ {o}, env \in Allocs :
           OpCopyAssign(o, other, env)
    \/ \E o \in Names : \E other \in Names \ {o} : OpMoveAssign(o, other)
    \/ \E o \in Names : \E other \in Names \ {o} : OpSwap(o, other)
    \/ \E o \in Names : OpClear(o)
    \/ \E o \in Names, env \in Envs :
           (env.zeroNull => lists[o].count = 0) /\ OpShrinkToFit(o, env)
    \/ \E o \in Names, n \in 1..MaxPair, env \in Allocs : OpCapacity(o, n, env)
    \/ \E o \in Names, v \in PairValues, env \in Allocs :
           lists[o].count < MaxPair /\ OpAdd(o, v, env)
    \/ \E o \in Names, index \in 0..(MaxPair - 1) : OpRemoveAt(o, index)
    \/ \E o \in Names, v \in PairValues : OpRemove(o, v)
    \/ \E o \in Names, k \in 1..3 : OpRemoveIf(o, k)
    \/ \E o \in Names, index \in 0..(MaxPair - 1), v \in PairValues :
           OpAssign(o, index, v)

Spec == Init /\ [][Next]_vars

(***************************************************************************)
(* SpecOne: one List, a, with more elements and every call on it           *)
(***************************************************************************)
NextOne ==
    \/ \E al \in AllocIds : OpConstruct("a", al)
    \/ OpDestroy("a")
    \/ \E env \in Allocs : OpCopyAssign("a", "a", env)
    \/ OpMoveAssign("a", "a")
    \/ OpClear("a")
    \/ \E env \in Envs :
           (env.zeroNull => lists["a"].count = 0) /\ OpShrinkToFit("a", env)
    \/ \E n \in 0..MaxCount, env \in Allocs : OpCapacity("a", n, env)
    \/ \E v \in Values, env \in Allocs :
           lists["a"].count < MaxCount /\ OpAdd("a", v, env)
    \/ \E index \in 0..(MaxCount - 1), env \in Allocs, g \in Values :
           /\ lists["a"].count < MaxCount
           /\ lists["a"].capacity # lists["a"].count => g = 1
           /\ OpAddElementOf("a", index, env, g)
    \/ \E ub \in {"crash", "garbage"} :
           (lists["a"].count > 0 => ub = "crash") /\ OpPrint("a", ub)
    \/ \E index \in 0..MaxCount : OpRemoveAt("a", index)
    \/ \E v \in Values : OpRemove("a", v)
    \/ \E k \in 0..(2 ^ MaxVal - 1) : OpRemoveIf("a", k)
    \/ \E index \in 0..MaxCount : OpGet("a", index)
    \/ \E index \in 0..(MaxCount - 1), v \in Values : OpAssign("a", index, v)
    \/ \E v \in Values : OpFind("a", v)
    \/ \E k \in 0..(2 ^ MaxVal - 1) : OpFindIf("a", k)

SpecOne == Init /\ [][NextOne]_vars

(***************************************************************************)
(* SpecCopy: two Lists, each with the allocator it is given, filled,        *)
(* emptied, and copy-assigned to each other                                *)
(***************************************************************************)
NextCopy ==
    \/ \E o \in Names, al \in AllocIds : OpConstruct(o, al)
    \/ \E o \in Names : OpDestroy(o)
    \/ \E o \in Names : OpClear(o)
    \/ \E o \in Names, n \in 1..MaxPair, env \in Allocs : OpCapacity(o, n, env)
    \/ \E o \in Names, v \in PairValues, env \in Allocs :
           lists[o].count < MaxPair /\ OpAdd(o, v, env)
    \/ \E o \in Names : \E other \in Names \ {o}, env \in Allocs :
           OpCopyAssign(o, other, env)

SpecCopy == Init /\ [][NextCopy]_vars

(***************************************************************************)
(* SpecAdds: one List, default-constructed, and nothing but Add            *)
(***************************************************************************)
InitAdds ==
    /\ lists = [o \in Objects |-> IF o = "a" THEN EmptyList(0) ELSE NoList]
    /\ heap = [p \in 1..NBlocks |-> FreeBlock]
    /\ last = NoCall
    /\ added = <<>>
    /\ relocated = 0

\* Add(v) on a, Add(v) that returns being appended to the record of the Adds.
\* The elements an Add destroys are those its Resize has moved to the new
\* block.
OpAddLogged(v, env) ==
    LET w == Add(Start, "a", v, env)
    IN  /\ Record(w, "Add", "a", "none", v)
        /\ added' = IF w.thrown = "none" THEN Append(added, v) ELSE added
        /\ relocated' = relocated + w.dtors

NextAdds ==
    \E v \in Values, env \in Allocs :
        lists["a"].count < MaxAdds /\ OpAddLogged(v, env)

SpecAdds == InitAdds /\ [][NextAdds]_vars

(***************************************************************************)
(* The properties                                                          *)
(***************************************************************************)
\* the sequence s without its i-th element
WithoutIndex(s, i) == [j \in 1..(Len(s) - 1) |-> IF j < i THEN s[j] ELSE s[j + 1]]

\* the elements of s that are not in the set P, in their order
Kept(s, P) == SelectSeq(s, LAMBDA x : x \notin P)

\* the place of the first v in s
FirstIndex(s, v) == CHOOSE i \in 1..Len(s) : s[i] = v /\ \A j \in 1..(i - 1) : s[j] # v

\* what the caller sees of o before the step, and after it
Before(o) == Observed(lists, heap, o)
After(o)  == Observed(lists', heap', o)

\* C1: under SpecAdds, after any run of Adds on a default-constructed List,
\* Count() is the number of Adds that returned and [i] is the value of the
\* i-th of them, whatever reallocations the Adds went through.
C1_AddsInOrder ==
    /\ lists["a"].count = Len(added)
    /\ Elems(lists, heap, "a") = added

\* five Adds, of values that differ, the last growths having moved elements
C1_Witness ==
    /\ Len(added) = 5
    /\ lists["a"].capacity = 8
    /\ added[1] # added[2]
    /\ added[4] # added[5]

\* C2: Remove(value) deletes the first element equal to value and no other:
\* the sequence becomes the old one without its first occurrence of value,
\* Count() drops by at most 1, and the result tells whether one was removed.
C2_RemoveFirstOnly ==
    [][last'.op = "Remove" =>
          LET o == last'.obj
              s == Before(o).elems
              v == last'.arg
          IN  IF \E i \in 1..Len(s) : s[i] = v
              THEN /\ After(o).elems = WithoutIndex(s, FirstIndex(s, v))
                   /\ After(o).count = Before(o).count - 1
                   /\ last'.ret # 0
              ELSE /\ After(o) = Before(o)
                   /\ last'.ret = 0]_vars

C4_RemoveAt ==
    [][(last'.op = "RemoveAt" /\ last'.arg < lists[last'.obj].count) =>
          LET o == last'.obj
          IN  /\ last'.err = "none"
              /\ After(o).elems = WithoutIndex(Before(o).elems, last'.arg + 1)
              /\ After(o).count = Before(o).count - 1
              /\ After(o).capacity = Before(o).capacity
              /\ last'.faults = {}]_vars

\* RemoveAt(1) has taken the middle one of three elements
C4_Witness ==
    /\ last.op = "RemoveAt" /\ last.arg = 1 /\ last.err = "none"
    /\ Elems(lists, heap, "a") = <<1, 2>>

\* C5: RemoveAt(index) and Get(index) with index >= Count() end in an
\* out-of-range error and change nothing of the List or of the heap.
C5_OutOfRange ==
    [][(last'.op \in {"RemoveAt", "Get"} /\ last'.arg >= lists[last'.obj].count) =>
          /\ last'.err = "out_of_range"
          /\ lists' = lists
          /\ heap' = heap]_vars

\* RemoveAt(2) on a List of two elements and capacity 4 has thrown
C5_Witness ==
    /\ last.op = "RemoveAt" /\ last.arg = 2 /\ last.err = "out_of_range"
    /\ lists["a"].count = 2 /\ lists["a"].capacity = 4

\* the step is a move into last'.obj from another List
MoveStep ==
    \/ last'.op = "MoveConstruct"
    \/ last'.op = "MoveAssign" /\ last'.src # last'.obj

\* C6: after a move construction or a move assignment from another List, the
\* source is empty (count 0, capacity 0, null storage), the destination has
\* the elements, in order, and the capacity the source had, and the move has
\* constructed no element.
C6_Move ==
    [][MoveStep =>
          /\ lists'[last'.src].count = 0
          /\ lists'[last'.src].capacity = 0
          /\ lists'[last'.src].data = Null
          /\ lists'[last'.src].alive
          /\ After(last'.obj) = Before(last'.src)
          /\ last'.cons = 0
          /\ last'.faults = {}]_vars

\* b = std::move(a) has given b the two elements of a and released b's block
C6_Witness ==
    /\ last.op = "MoveAssign" /\ last.obj = "b" /\ last.src = "a"
    /\ last.frees = 1
    /\ Elems(lists, heap, "b") = <<1, 2>>
    /\ lists["a"].capacity = 0

\* the calls of C7 that change a List
Mutating ==
    {"Add", "RemoveAt", "Remove", "RemoveIf", "Clear", "Capacity", "ShrinkToFit",
     "Assign"}

\* the step has made last'.obj a copy of another List
CopyStep ==
    /\ last'.op \in {"CopyConstruct", "CopyAssign"}
    /\ last'.src # last'.obj
    /\ last'.err = "none"

\* the Lists a and b keep their elements in different blocks
Disjoint(ls) == ls["a"].data = ls["b"].data => ls["a"].data = Null

\* C7: a copy (copy construction, copy assignment) has the elements of its
\* source, in order, in a block of its own, and leaves the source as it was;
\* and a call that changes one List (Add, RemoveAt, Remove, RemoveIf, Clear,
\* Capacity(n), ShrinkToFit, an element written) leaves the elements, Count()
\* and Capacity() of the other as they were, the blocks staying apart.
C7_CopyIndependent ==
    [][/\ CopyStep =>
             /\ After(last'.obj).elems = Before(last'.src).elems
             /\ After(last'.src) = Before(last'.src)
             /\ Disjoint(lists')
       /\ last'.op \in Mutating =>
             /\ \A x \in Names \ {last'.obj} : After(x) = Before(x)
             /\ Disjoint(lists) => Disjoint(lists')]_vars

\* b = a has copied the two elements of a into b's own block
C7_Witness ==
    /\ last.op = "CopyAssign" /\ last.obj = "b" /\ last.src = "a"
    /\ last.err = "none" /\ last.cons = 2
    /\ Elems(lists, heap, "a") = <<1, 2>>
    /\ Elems(lists, heap, "b") = <<1, 2>>
    /\ lists["a"].data # lists["b"].data

\* C8: a = a and a = std::move(a) leave the List and the heap as they were:
\* the same elements in the same block, none constructed, none destroyed,
\* no block released.
C8_SelfAssign ==
    [][(last'.op \in {"CopyAssign", "MoveAssign"} /\ last'.src = last'.obj) =>
          /\ lists' = lists
          /\ heap' = heap
          /\ last'.err = "none"
          /\ last'.cons = 0
          /\ last'.frees = 0
          /\ last'.faults = {}]_vars

\* a = std::move(a) on a List of three elements
C8_Witness ==
    /\ last.op = "MoveAssign" /\ last.obj = "a" /\ last.src = "a"
    /\ lists["a"].count = 3
    /\ \A i \in 1..3 : Elems(lists, heap, "a")[i] \in Values

\* C9: a call in which allocate throws leaves the elements, Count() and
\* Capacity() of its List as they were before the call.
C9_AllocFailureKeepsState ==
    [][last'.err = "bad_alloc" => After(last'.obj) = Before(last'.obj)]_vars

C11_ShrinkToFit ==
    [][(last'.op = "ShrinkToFit" /\ last'.err = "none") =>
          LET o == last'.obj
          IN  /\ After(o).capacity = After(o).count
              /\ After(o).elems = Before(o).elems
              /\ After(o).count = Before(o).count
              /\ last'.faults = {}
              /\ lists[o].capacity # lists[o].count
                    => /\ last'.cons = lists[o].count
                       /\ last'.dtors = lists[o].count
              /\ lists[o].capacity = lists[o].count
                    => /\ lists' = lists
                       /\ heap' = heap
                       /\ last'.cons = 0 /\ last'.dtors = 0
                       /\ last'.frees = 0 /\ last'.nullfrees = 0]_vars

\* ShrinkToFit has moved the two elements of a block of four to a block of two
C11_Witness ==
    /\ last.op = "ShrinkToFit" /\ last.err = "none"
    /\ last.cons = 2 /\ last.frees = 1
    /\ lists["a"].capacity = 2
    /\ Elems(lists, heap, "a") = <<1, 2>>

\* C12: Clear destroys each of the Count() elements once (no slot twice, no
\* slot of no element), leaves Count() 0, Capacity() and the block as they
\* were with every slot raw, and calls neither allocate nor deallocate.
C12_Clear ==
    [][last'.op = "Clear" =>
          LET o == last'.obj
          IN  /\ last'.dtors = lists[o].count
              /\ last'.faults = {}
              /\ lists'[o] = [lists[o] EXCEPT !.count = 0]
              /\ \A p \in 1..NBlocks :
                    /\ heap'[p].allocd = heap[p].allocd
                    /\ heap'[p].size = heap[p].size
                    /\ \A i \in 0..(heap'[p].size - 1) :
                          Read(heap', p, i) =
                              IF p = lists[o].data THEN Raw ELSE Read(heap, p, i)
              /\ last'.cons = 0
              /\ last'.frees = 0 /\ last'.nullfrees = 0
              /\ last'.err = "none"]_vars

\* Clear has destroyed the three elements of a List of capacity 4
C12_Witness ==
    /\ last.op = "Clear" /\ last.dtors = 3
    /\ lists["a"].count = 0 /\ lists["a"].capacity = 4
    /\ lists["a"].data # Null

\* C13: under SpecAdds, an Add that returns and found Capacity() equal to
\* Count() leaves Capacity() at max(2 * Capacity(), 1), any other Add leaves
\* Capacity() as it was, and after n >= 1 Adds the growths have moved fewer
\* than 2n elements in all.
C13_AmortizedGrowth ==
    [][(last'.op = "Add" /\ last'.err = "none") =>
          /\ lists'["a"].capacity =
                IF lists["a"].capacity = lists["a"].count
                THEN Max(2 * lists["a"].capacity, 1)
                ELSE lists["a"].capacity
          /\ last'.dtors =
                IF lists["a"].capacity = lists["a"].count
                THEN lists["a"].count ELSE 0
          /\ relocated' < 2 * Len(added')]_vars

\* the ninth Add has grown the block from 8 to 16: 1 + 2 + 4 + 8 elements
\* moved
C13_Witness ==
    /\ Len(added) = 9
    /\ last.op = "Add" /\ last.dtors = 8
    /\ relocated = 15
    /\ lists["a"].capacity = 16

\* C14: in every reachable state the storage pointer of a List is null if
\* and only if its capacity is 0.
C14_NullIffNoCapacity ==
    \A o \in Names :
        lists[o].alive => (lists[o].data = Null <=> lists[o].capacity = 0)

\* the slots of the block of o: [0, count) hold an element each, the others
\* hold none
SlotsInOrder(ls, h, o) ==
    LET L == ls[o]
    IN  /\ 0 <= L.count /\ L.count <= L.capacity
        /\ L.data = Null => L.capacity = 0
        /\ L.data # Null =>
              /\ h[L.data].allocd /\ h[L.data].size = L.capacity
              /\ \A i \in 0..(L.capacity - 1) : Live(h, L.data, i) <=> i < L.count

\* the number of elements alive in the heap
LiveCount(h) ==
    Cardinality({pi \in (1..NBlocks) \X (0..(2 * MaxAdds)) : Live(h, pi[1], pi[2])})

\* C15: in every reachable state count <= capacity, slots [0, count) of the
\* block hold a live element each and slots [count, capacity) hold none; each
\* call ends the life of an element only by destroying it, once (the live
\* elements of the heap change by the constructions less the destructions,
\* and none is left when no List is); and no call reads, assigns, destroys or
\* constructs over a slot it should not.
C15_SlotDiscipline ==
    [][/\ \A o \in Names : lists'[o].alive => SlotsInOrder(lists', heap', o)
       /\ LiveCount(heap') = LiveCount(heap) + last'.cons - last'.dtors
       /\ (\A o \in Names : ~lists'[o].alive) => LiveCount(heap') = 0
       /\ last'.faults = {}]_vars

\* the Lists that own block p
Owners(p) == {o \in Objects : lists[o].alive /\ lists[o].data = p}

\* C16: no block is owned by two Lists at once; the block a List holds is
\* one that allocate(n) returned, with n the capacity the List will pass to
\* deallocate, and is not released yet; no call has released a block twice
\* or with another size; and every block not yet released is owned by a
\* List, so that none is left once every List is destroyed.
C16_BlockOwnership ==
    /\ \A p \in 1..NBlocks : Cardinality(Owners(p)) <= 1
    /\ \A p \in 1..NBlocks : heap[p].allocd => Owners(p) # {}
    /\ \A o \in Objects :
          (lists[o].alive /\ lists[o].data # Null) =>
              /\ heap[lists[o].data].allocd
              /\ heap[lists[o].data].size = lists[o].capacity
    /\ last.faults \cap {"double_free", "deallocate_size"} = {}

\* the last List, of two elements, has been destroyed and its block released
C16_Witness ==
    /\ last.op = "Destroy" /\ last.dtors = 2 /\ last.frees = 1
    /\ \A o \in Objects : ~lists[o].alive
    /\ \A p \in 1..NBlocks : ~heap[p].allocd

\* what C17 says of every copy assignment from another List: the destination
\* does not shrink, has the elements and the Count() of the source, keeps its
\* allocator, and leaves the source as it was
CopyAssigned ==
    LET o == last'.obj
        x == last'.src
    IN  /\ lists'[o].capacity >= lists[o].capacity
        /\ After(o).elems = Before(x).elems
        /\ After(o).count = Before(x).count
        /\ lists'[o].alloc = lists[o].alloc
        /\ After(x) = Before(x) /\ lists'[x].alloc = lists[x].alloc
        /\ last'.faults = {}

\* C17, as claimed: a copy assignment from another List reallocates only
\* when the capacity of the destination is below the Count() of the source,
\* and then the capacity grows.
C17_GrowOnlyIfNeeded ==
    [][(CopyStep /\ last'.op = "CopyAssign") =>
          LET o == last'.obj
              x == last'.src
          IN  /\ CopyAssigned
              /\ lists[o].capacity >= lists[x].count
                    => /\ lists'[o].capacity = lists[o].capacity
                       /\ last'.frees = 0 /\ last'.nullfrees = 0
              /\ lists[o].capacity < lists[x].count
                    => lists'[o].capacity > lists[o].capacity]_vars

\* C17, amended: a copy assignment from another List reallocates only when
\* the capacity of the destination is below the Capacity() of the source,
\* and then the capacity becomes that of the source.
C17_GrowToSourceCapacity ==
    [][(CopyStep /\ last'.op = "CopyAssign") =>
          LET o == last'.obj
              x == last'.src
          IN  /\ CopyAssigned
              /\ lists[o].capacity >= lists[x].capacity
                    => /\ lists'[o].capacity = lists[o].capacity
                       /\ last'.frees = 0 /\ last'.nullfrees = 0
              /\ lists[o].capacity < lists[x].capacity
                    => /\ lists'[o].capacity = lists[x].capacity
                       /\ last'.frees + last'.nullfrees = 1]_vars

\* b = a with a of one element and capacity 2 and b, of another allocator,
\* with a block of its own: b has been given a new block of capacity 2
C17_Witness ==
    /\ last.op = "CopyAssign" /\ last.obj = "b" /\ last.src = "a"
    /\ last.err = "none" /\ last.frees = 1 /\ last.cons = 1
    /\ lists["a"].count = 1 /\ lists["b"].capacity = 2
    /\ lists["a"].alloc = 0 /\ lists["b"].alloc = 1

\* C18: destroying a List whose storage is null (default-constructed and
\* never grown, or moved from) makes no deallocate call.
C18_NoReleaseOfNull ==
    [][(last'.op = "Destroy" /\ lists[last'.obj].data = Null) =>
          last'.frees = 0 /\ last'.nullfrees = 0]_vars

\* C19: Add(list[index]) appends a copy of the element at index, read while
\* that element is alive, whether or not the Add grows the block.
C19_AddOwnElement ==
    [][(last'.op = "AddElementOf" /\ last'.err = "none") =>
          LET o == last'.obj
          IN  /\ After(o).elems =
                    Append(Before(o).elems, Before(o).elems[last'.arg + 1])
              /\ last'.faults = {}]_vars

\* C20: Print reads the slots 0, ..., Count() - 1, each once and in that
\* order, and no other slot.
C20_PrintReadsLive ==
    [][last'.op = "Print" =>
          /\ last'.reads = [i \in 1..lists[last'.obj].count |-> i - 1]
          /\ last'.faults = {}
          /\ last'.err = "none"]_vars

====
